---- MODULE Spec2Model ----
(***************************************************************************)
(* CosmosEditorManager (src/src/CosmosEditorManager.ts): the table that    *)
(* binds local editor buffers to remote entities, the save-triggered       *)
(* upload and the programmatic rewrite of a buffer.                        *)
(*                                                                         *)
(* The extension host runs the manager's async methods on one thread; a    *)
(* method runs without interruption up to its next `await` and resumes in  *)
(* a later turn.  Every method call in flight is a task record holding its *)
(* position (pc) and its local variables; every action below is one such   *)
(* turn: the code between two awaits, or one event of the environment (the *)
(* user, the editor, the remote store).                                    *)
(***************************************************************************)
EXTENDS Naturals, FiniteSets, Sequences, TLC

\* ---------------------------------------------------------------- bounds
NumPaths   == 2    \* local buffers
NumEditors == 2    \* remote entities
NumData    == 1    \* distinct values an entity can hold
MaxTasks   == 2    \* method calls in flight at once
MaxOps     == 3    \* user commands and user events in one behaviour
MaxRestarts == 1   \* restarts of the extension host in one behaviour
MaxDocs    == 4    \* documents in the collection
MaxBatch   == 2    \* values of DefaultBatchSize
MaxCalls   == 2    \* loadMoreChildren calls in flight at once
MaxFetches == 4    \* loadMoreChildren calls in one behaviour
MaxCursors == 2    \* cursors created in one behaviour
MaxChanges == 1    \* update, createChild, deleteTreeItem and executeCommand
                   \* calls in one behaviour
MaxInsert  == 1    \* documents in the argument of one insert command
MaxUpdate  == 1    \* documents in the argument of one update call
MaxQueried == 2    \* documents a query matches, at the start
MaxOther   == 1    \* documents a query does not match, at the start

Paths == 1..NumPaths
Ids   == 1..NumEditors
Tasks == 1..MaxTasks

\* ICosmosEditor handles: the manager only reads `id` (and `label` for a
\* message) and calls getData/update.
Editors == {[id |-> i] : i \in Ids}
Data    == {[a |-> n] : n \in 1..NumData}

Absent      == [tag |-> "absent"]      \* no such key in an object
Undefined   == [tag |-> "undefined"]   \* the JavaScript value undefined
NoData      == [tag |-> "nodata"]
SyntaxError == [tag |-> "SyntaxError"]
NoPath      == 0                       \* no path / no active text editor
NoId        == 0                       \* no id stored for a path

\* ------------------------------------------------------------------ JSON
\* JSON.stringify(data, null, 2) of the object {a: n}
JSONstringify(d) == "{\n  \"a\": " \o ToString(d.a) \o "\n}"

\* the same value as a user would type it on one line
Compact(d) == "{\"a\":" \o ToString(d.a) \o "}"

BadText   == "{\"a\":"
EmptyText == ""

UserTexts == {Compact(d) : d \in Data} \cup {BadText}
Texts     == UserTexts \cup {JSONstringify(d) : d \in Data} \cup {EmptyText}

\* JSON.parse(text): the value, or SyntaxError when text is no JSON
JSONparse(t) ==
    IF \E d \in Data : t \in {JSONstringify(d), Compact(d)}
    THEN CHOOSE d \in Data : t \in {JSONstringify(d), Compact(d)}
    ELSE SyntaxError

\* ----------------------------------------------------------------- state
VARIABLES
    fileMap,          \* this.fileMap: path -> editor | Undefined | Absent
    fileMapKeys,      \* Object.keys(this.fileMap): the paths that have an
                      \* entry, in the order they were first assigned
    ignoreSave,       \* this.ignoreSave
    persistedEditors, \* globalState value under _persistedEditorsKey:
                      \* Undefined, or path -> id | NoId
    memento,          \* what globalState.get hands out: the stored object
                      \* itself ("shared") or a copy of it ("copied");
                      \* "unknown" until a step shows the difference
    showSavePrompt,   \* configuration value cosmosDB.showSavePrompt
    text,             \* path -> text of the document
    dirty,            \* path -> document.isDirty
    exists,           \* path -> the local file exists
    activeTextEditor, \* vscode.window.activeTextEditor (a path, or NoPath)
    tasks,            \* slot -> the method call in flight in it, or IdleTask
    finished,         \* the record of the call that finished last
    ops,              \* user commands and events so far
    restarts          \* restarts of the extension host so far

\* MongoCollectionTreeItem: one collection item and the cursors it made
VARIABLES
    query,            \* this._query: Undefined, or the filter {a: n}
    collection,       \* this.collection: the documents the query matches,
                      \* in the order a cursor yields them
    unmatched,        \* this.collection: the documents the query does not
                      \* match
    inserted,         \* the documents ever put into the collection
    changes,          \* update, createChild, deleteTreeItem, executeCommand
                      \* calls so far
    stable,           \* the collection has not changed since the last time
                      \* a cursor was made with no call in flight
    DefaultBatchSize, \* the imported constant DefaultBatchSize
    cursor,           \* this._cursor: the cursor made last, or NoCursor
    cursorPos,        \* cursor -> the documents it has yielded so far
    hasMoreChildren,  \* this._hasMoreChildren
    batchSize,        \* this._batchSize
    calls,            \* slot -> the loadMoreChildren call in flight in it
    lastCall,         \* the record of the loadMoreChildren call that ended last
    returned,         \* the documents returned by the calls completed since
                      \* the cursor was made, in the order of completion
    fetches,          \* the calls completed since the cursor was made
    undisturbed,      \* no call overlapped another or threw since then
    lastAnswer,       \* the latest answer of hasNext() of this._cursor:
                      \* "true", "false", or "none" before the first
    started           \* loadMoreChildren calls so far

evars == <<fileMap, fileMapKeys, ignoreSave, persistedEditors, memento,
           showSavePrompt, text, dirty, exists, activeTextEditor, tasks,
           finished, ops, restarts>>

pvars == <<query, collection, unmatched, inserted, changes, stable,
           DefaultBatchSize, cursor, cursorPos, hasMoreChildren, batchSize,
           calls, lastCall, returned, fetches, undisturbed, lastAnswer,
           started>>

vars == <<evars, pvars>>

\* A task: one call of showDocument ("show"), onDidSaveTextDocument ("save")
\* or updateMatchingNode ("match").  editor, data, target are the call's
\* locals (editor, data/updatedDoc, textEditor).  The remaining fields
\* record what the call did: origin (who fired the save event), flag
\* (ignoreSave when the handler was entered), ownRewrite (a rewrite of this
\* very buffer was saving when the handler was entered), updated
\* (editor.update was called), gotData (editor.getData was called),
\* recovered (loadPersistedEditor bound the path), node (what tree.findNode
\* answered to loadPersistedEditor), answer (what the user
\* answered to the upload prompt, kept until the remote call is over),
\* outcome.
IdleTask ==
    [kind |-> "none", pc |-> "idle", path |-> NoPath, editor |-> Undefined,
     data |-> NoData, target |-> NoPath, origin |-> "none", flag |-> FALSE,
     ownRewrite |-> FALSE, updated |-> FALSE, gotData |-> FALSE,
     recovered |-> FALSE, node |-> "unasked", answer |-> "none",
     outcome |-> "none"]

NewTask(k, p, e, org) ==
    [IdleTask EXCEPT !.kind = k, !.path = p, !.editor = e, !.origin = org]

\* the call returns (o = "ok"; "suppressed": line 121 saw ignoreSave;
\* "unbound": line 121 saw no filePath) or throws (o names the error); its
\* locals are dropped
Done(r, o) ==
    [r EXCEPT !.pc = "done", !.outcome = o, !.data = NoData,
              !.target = NoPath, !.editor = Undefined]

\* an async method that the call r awaits returns (o = "ok") or throws (o
\* names the error): its promise is settled and its locals are dropped; the
\* method that awaits it resumes in a later turn, at pc ("lp_return": line
\* 119 or 63, "ue_return": line 57 or 75, "uc_return": line 136 or 66)
Settled(r, pc, o) == [Done(r, o) EXCEPT !.pc = pc]

FreeSlots   == {t \in Tasks : tasks[t].pc = "idle"}
FreeSlot    == CHOOSE t \in FreeSlots : \A u \in FreeSlots : t <= u

Errors == {"Cancelled", "MalformedInput", "EntityNotFound", "TypeError",
           "SaveError", "TransportError"}

EmptyFileMap == [p \in Paths |-> Absent]
EmptyLabels  == [p \in Paths |-> NoId]

\* this._globalState.get(this._persistedEditorsKey, {})
PersistedOrEmpty ==
    IF persistedEditors = Undefined THEN EmptyLabels ELSE persistedEditors

EditorInit ==
    /\ fileMap = EmptyFileMap
    /\ fileMapKeys = <<>>
    /\ ignoreSave = FALSE
    /\ persistedEditors = Undefined
    /\ memento = "unknown"
    /\ showSavePrompt = TRUE
    /\ text = [p \in Paths |-> EmptyText]
    /\ dirty = [p \in Paths |-> FALSE]
    /\ exists = [p \in Paths |-> FALSE]
    /\ activeTextEditor = NoPath
    /\ tasks = [t \in Tasks |-> IdleTask]
    /\ finished = IdleTask
    /\ ops = 0
    /\ restarts = 0

\* no cursor / no pending cursor operation
NoCursor == 0

Cursors == 1..MaxCursors
Calls   == 1..MaxCalls

\* a loadMoreChildren call: clearCache is its argument, documents and count
\* its locals, pc the await it is suspended at ("hasNext": line 77,
\* "next": line 79), on the cursor the awaited operation was called on;
\* alone records that no other call was in flight during it, outcome how
\* it ended
IdleCall ==
    [pc |-> "idle", clearCache |-> FALSE, documents |-> <<>>, count |-> 0,
     on |-> NoCursor, alone |-> FALSE, outcome |-> "none"]

\* the texts given as the constructor's argument query: no text, and the
\* filter {"a":1}
QueryTexts == {EmptyText, Compact([a |-> 1])}

\* line 29: this._query for the argument query (given: it is not missing)
ParseQuery(given, q) ==
    IF given /\ q # EmptyText THEN JSONparse(q) ELSE Undefined

\* collection.find(q) yields the document d: every document without a
\* filter, else those whose field a has the filter's value
MatchesQuery(q, d) ==
    IF q = Undefined THEN TRUE
    ELSE IF "a" \in DOMAIN d THEN d.a = q.a ELSE FALSE

\* the documents of the remote collection; a cursor yields them in the
\* order they were inserted, which is the order of their numbers
StoreIds == {collection[i] : i \in 1..Len(collection)} \cup unmatched

\* the documents of the set M in the cursor's order
InOrder(M) == SelectSeq([i \in 1..inserted |-> i], LAMBDA i : i \in M)

\* the cursor is made without a filter
CursorFilter_None(q) == Undefined

\* line 70: the filter the cursor is made with, q being this._query
CursorFilter(q) == q

\* the documents a cursor made with the filter f yields, as the collection
\* is now; f is this._query or no filter
Find(f) == IF f = Undefined THEN InOrder(StoreIds) ELSE collection

\* the collection item after its constructor (lines 21-30) with
\* this._query = q, for a collection that holds the n documents 1..n, which
\* q matches, and after them m documents that q does not match, and the
\* default batch size b
NewCollectionItem(q, n, m, b) ==
    /\ query = q
    /\ collection = [i \in 1..n |-> i]
    /\ unmatched = (n + 1)..(n + m)
    /\ inserted = n + m
    /\ changes = 0
    /\ stable = TRUE
    /\ DefaultBatchSize = b
    /\ cursor = NoCursor
    /\ cursorPos = [c \in Cursors |-> 0]
    /\ hasMoreChildren = TRUE
    /\ batchSize = b
    /\ calls = [c \in Calls |-> IdleCall]
    /\ lastCall = IdleCall
    /\ returned = <<>>
    /\ fetches = 0
    /\ undisturbed = TRUE
    /\ lastAnswer = "none"
    /\ started = 0

\* the editor manager, with a collection item that is never expanded
Init == EditorInit /\ NewCollectionItem(Undefined, 0, 0, 1)

\* a collection item of any size, with an editor manager that is never used
InitPaging ==
    /\ EditorInit
    /\ \E given \in BOOLEAN, q \in QueryTexts, n \in 0..MaxDocs,
          m \in 0..MaxOther, b \in 1..MaxBatch :
          /\ n + m <= MaxDocs
          /\ IF ParseQuery(given, q) = Undefined THEN m = 0
             ELSE n <= MaxQueried
          /\ NewCollectionItem(ParseQuery(given, q), n, m, b)

\* ------------------------------------------------- the code between awaits

\* loadPersistedEditor, lines 89-93: the key of the persisted table that
\* matches the document, NoPath when there is no table or no such key
PersistedKey(p) ==
    IF persistedEditors # Undefined /\ persistedEditors[p] # NoId
    THEN p ELSE NoPath

\* editor.update called on the raw text, the parse error surfacing after it
updateToCloud_UpdateBeforeParse(r, e) ==
    IF e \notin Editors
    THEN Settled(r, "uc_return", "TypeError")
    ELSE IF JSONparse(text[r.path]) = SyntaxError
    THEN Settled([r EXCEPT !.updated = TRUE], "uc_return", "MalformedInput")
    ELSE [r EXCEPT !.pc = "uc_update", !.editor = Undefined,
                   !.target = NoPath, !.data = JSONparse(text[r.path]),
                   !.updated = TRUE]

\* updateToCloud up to its first await (line 70), for the call r with the
\* editor argument e: editor.update of undefined throws, JSON.parse throws
\* on text that is no JSON (either rejects the promise of updateToCloud,
\* which its caller awaits), otherwise editor.update(parsed) is called
updateToCloud(r, e) ==
    IF e \notin Editors
    THEN Settled(r, "uc_return", "TypeError")
    ELSE IF JSONparse(text[r.path]) = SyntaxError
    THEN Settled(r, "uc_return", "MalformedInput")
    ELSE [r EXCEPT !.pc = "uc_update", !.editor = Undefined,
                   !.target = NoPath, !.data = JSONparse(text[r.path]),
                   !.updated = TRUE]

\* onDidSaveTextDocument from line 121 on, filePath = r.path found, with fm
\* the fileMap at that moment, up to the next await
SaveHandlerBody(r, fm) ==
    IF ignoreSave
    THEN Done(r, "suppressed")
    ELSE IF showSavePrompt # FALSE
    THEN IF fm[r.path] \notin Editors
         THEN Done(r, "TypeError")          \* editor.label of undefined
         ELSE [r EXCEPT !.pc = "os_prompt", !.editor = fm[r.path]]
    ELSE updateToCloud(r, fm[r.path])

\* onDidSaveTextDocument(doc) for the document at p, up to its first
\* await (a path without an entry in fileMap awaits loadPersistedEditor,
\* which has returned undefined when the persisted table has no key for
\* it).  org tells who saved: "user" or "echo" (updateEditor's save).
onDidSaveTextDocument(p, org) ==
    LET r == [NewTask("save", p, Undefined, org) EXCEPT
                !.flag = ignoreSave,
                !.ownRewrite = \E u \in Tasks :
                    /\ tasks[u].pc \in {"ue_save", "ue_finally", "ue_failed"}
                    /\ tasks[u].target = p]
    IN  IF fileMap[p] # Absent
        THEN SaveHandlerBody(r, fileMap)
        ELSE IF PersistedKey(p) = NoPath
        THEN [r EXCEPT !.pc = "lp_return"]
        ELSE [r EXCEPT !.pc = "lp_findNode",
                       !.editor = [id |-> persistedEditors[p]]]

\* The call of slot t goes on as record r: a call that returned or threw
\* leaves its record in `finished` and frees the slot.
Continue(t, r) ==
    IF r.pc = "done"
    THEN /\ tasks' = [tasks EXCEPT ![t] = IdleTask]
         /\ finished' = r
    ELSE /\ tasks' = [tasks EXCEPT ![t] = r]
         /\ UNCHANGED finished

\* A save handler r is entered while the task table becomes tk: a handler
\* that ended in its first turn (line 121 saw ignoreSave, or line 126
\* threw) leaves only its record, one that suspended takes a free slot.
Deliver(r, tk) ==
    LET free == {u \in Tasks : tk[u].pc = "idle"}
        slot == CHOOSE u \in free : \A v \in free : u <= v
    IN  IF r.pc = "done"
        THEN /\ tasks' = tk
             /\ finished' = r
        ELSE /\ free # {}
             /\ tasks' = [tk EXCEPT ![slot] = r]
             /\ UNCHANGED finished

\* line 53 left out: the table is stored as it was read
FileMapLabels_NotWritten(fm) ==
    [q \in Paths |-> PersistedOrEmpty[q]]

\* lines 52-53: the persisted labels after the ids of every fileMap entry
\* are written over them
FileMapLabels(fm) ==
    [q \in Paths |-> IF fm[q] # Absent THEN fm[q].id ELSE PersistedOrEmpty[q]]

\* this.fileMap[p] = ... : the keys of fileMap after an assignment to the
\* entry of p (a new key goes last)
KeysWith(p) ==
    IF \E i \in 1..Len(fileMapKeys) : fileMapKeys[i] = p
    THEN fileMapKeys ELSE Append(fileMapKeys, p)

\* line 53 when an entry of fm is undefined: the keys, in the order ks of
\* Object.keys, that forEach has visited before the one whose .id throws
KeysBeforeUndefined(fm, ks) ==
    LET bad   == {i \in 1..Len(ks) : fm[ks[i]] = Undefined}
        first == CHOOSE i \in bad : \A j \in bad : i <= j
    IN  {ks[i] : i \in 1..(first - 1)}

\* the labels line 53 has written when it throws
PartialLabels(fm, ks) ==
    [q \in Paths |-> IF q \in KeysBeforeUndefined(fm, ks)
                     THEN fm[q].id ELSE PersistedOrEmpty[q]]

\* showDocument lines 51-55: record the binding, persist the table, call
\* showTextDocument.  Reading .id of an undefined entry throws at line 53,
\* before line 54 stores the table: the labels written until then are lost
\* when they were written into the default {} of line 52 or into a copy,
\* and are in the stored table when globalState.get handed out the stored
\* object.
Bind(t) ==
    LET r  == tasks[t]
        fm == [fileMap EXCEPT ![r.path] = r.editor]
        ks == KeysWith(r.path)
    IN  /\ fileMap' = fm
        /\ fileMapKeys' = ks
        /\ IF \E q \in Paths : fm[q] = Undefined
           THEN /\ Continue(t, Done(r, "TypeError"))
                /\ IF \/ persistedEditors = Undefined
                      \/ PartialLabels(fm, ks) = persistedEditors
                   THEN UNCHANGED <<persistedEditors, memento>>
                   ELSE \/ /\ memento \in {"unknown", "shared"}
                           /\ memento' = "shared"
                           /\ persistedEditors' = PartialLabels(fm, ks)
                        \/ /\ memento \in {"unknown", "copied"}
                           /\ memento' = "copied"
                           /\ UNCHANGED persistedEditors
           ELSE /\ persistedEditors' = FileMapLabels(fm)
                /\ UNCHANGED memento
                /\ Continue(t, [r EXCEPT !.pc = "sd_show", !.editor = Undefined])

\* the reset written after the save instead of in a finally block: a save
\* that throws skips it
IgnoreSaveAfterSave_NoFinally(failed) == IF failed THEN ignoreSave ELSE FALSE

\* updateEditor's finally block (line 84): ignoreSave after the save
\* returned (failed = FALSE) or threw (failed = TRUE)
IgnoreSaveAfterSave(failed) == FALSE

\* ------------------------------------------------------------ showDocument

\* the command: showDocument(editor, fileName) up to await ensureFile
ShowDocument(e, p) ==
    /\ ops < MaxOps
    /\ FreeSlots # {}
    /\ tasks' = [tasks EXCEPT ![FreeSlot] =
                    [NewTask("show", p, e, "cmd") EXCEPT !.pc = "sd_ensureFile"]]
    /\ ops' = ops + 1
    /\ UNCHANGED <<fileMap, fileMapKeys, ignoreSave, persistedEditors,
                   memento, showSavePrompt, text, dirty, exists,
                   activeTextEditor, finished, restarts>>
    /\ UNCHANGED pvars

\* line 42 done: the file exists; line 44 opens it
EnsureFileDone(t) ==
    /\ tasks[t].pc = "sd_ensureFile"
    /\ exists' = [exists EXCEPT ![tasks[t].path] = TRUE]
    /\ Continue(t, [tasks[t] EXCEPT !.pc = "sd_open"])
    /\ UNCHANGED <<fileMap, fileMapKeys, ignoreSave, persistedEditors,
                   memento, showSavePrompt, text, dirty, activeTextEditor,
                   ops, restarts>>
    /\ UNCHANGED pvars

\* line 44 done; lines 45-55: a dirty document asks first, a clean one is
\* bound at once
OpenDone(t) ==
    /\ tasks[t].pc = "sd_open"
    /\ IF dirty[tasks[t].path]
       THEN /\ Continue(t, [tasks[t] EXCEPT !.pc = "sd_prompt"])
            /\ UNCHANGED <<fileMap, fileMapKeys, persistedEditors, memento>>
       ELSE Bind(t)
    /\ UNCHANGED <<ignoreSave, showSavePrompt, text, dirty, exists,
                   activeTextEditor, ops, restarts>>
    /\ UNCHANGED pvars

\* the binding recorded (line 51) before the dirty check instead of after
DeclineOverwrite_AfterBind(t) ==
    /\ Continue(t, Done(tasks[t], "Cancelled"))
    /\ fileMap' = [fileMap EXCEPT ![tasks[t].path] = tasks[t].editor]
    /\ fileMapKeys' = KeysWith(tasks[t].path)
    /\ UNCHANGED <<persistedEditors, memento>>

\* lines 47-49: the answer is not Yes; UserCancelledError is thrown before
\* anything is recorded
DeclineOverwrite(t) ==
    /\ Continue(t, Done(tasks[t], "Cancelled"))
    /\ UNCHANGED <<fileMap, fileMapKeys, persistedEditors, memento>>

\* line 46 done; lines 47-55
OverwritePrompt(t) ==
    /\ tasks[t].pc = "sd_prompt"
    /\ \E overwriteFlag \in {"Yes", "Cancel", "dismissed"} :
          IF overwriteFlag # "Yes"
          THEN DeclineOverwrite(t)
          ELSE Bind(t)
    /\ UNCHANGED <<ignoreSave, showSavePrompt, text, dirty, exists,
                   activeTextEditor, ops, restarts>>
    /\ UNCHANGED pvars

\* line 55 done: the document is the active editor; line 56 calls getData
ShowTextDocumentDone(t) ==
    /\ tasks[t].pc = "sd_show"
    /\ activeTextEditor' = tasks[t].path
    /\ Continue(t, [tasks[t] EXCEPT !.pc = "sd_getData",
                                    !.target = tasks[t].path,
                                    !.gotData = TRUE])
    /\ UNCHANGED <<fileMap, fileMapKeys, ignoreSave, persistedEditors,
                   memento, showSavePrompt, text, dirty, exists, ops,
                   restarts>>
    /\ UNCHANGED pvars

\* line 56 done (the entity answers any of its values, or the call fails);
\* line 57 enters updateEditor, which calls writeToEditor (line 79)
GetDataDone(t) ==
    /\ tasks[t].pc = "sd_getData"
    /\ \/ \E d \in Data :
            Continue(t, [tasks[t] EXCEPT !.pc = "ue_write", !.data = d])
       \/ Continue(t, Done(tasks[t], "TransportError"))
    /\ UNCHANGED <<fileMap, fileMapKeys, ignoreSave, persistedEditors,
                   memento, showSavePrompt, text, dirty, exists,
                   activeTextEditor, ops, restarts>>
    /\ UNCHANGED pvars

\* ------------------------------------------------------------ updateEditor

\* util.writeToEditor(textEditor, s): the whole text of the editor's
\* document is replaced by s
writeToEditor(p, s) == [text EXCEPT ![p] = s]

\* line 79, the edit itself: writeToEditor replaces the text of the
\* document of textEditor, which is dirty from then on; its promise is
\* resolved, updateEditor has not resumed yet
WriteApplied(t) ==
    /\ tasks[t].pc = "ue_write"
    /\ text' = writeToEditor(tasks[t].target, JSONstringify(tasks[t].data))
    /\ dirty' = [dirty EXCEPT ![tasks[t].target] = TRUE]
    /\ Continue(t, [tasks[t] EXCEPT !.pc = "ue_written", !.data = NoData])
    /\ UNCHANGED <<fileMap, fileMapKeys, ignoreSave, persistedEditors, memento,
                   showSavePrompt, exists, activeTextEditor, ops, restarts>>
    /\ UNCHANGED pvars

\* line 79 done: updateEditor resumes; lines 80-82: ignoreSave is set and
\* document.save() is called
WriteDone(t) ==
    /\ tasks[t].pc = "ue_written"
    /\ ignoreSave' = TRUE
    /\ Continue(t, [tasks[t] EXCEPT !.pc = "ue_save"])
    /\ UNCHANGED <<fileMap, fileMapKeys, persistedEditors, memento,
                   showSavePrompt, text, dirty, exists, activeTextEditor, ops,
                   restarts>>
    /\ UNCHANGED pvars

\* line 82, the save itself: a dirty document is written and the editor
\* fires onDidSaveTextDocument before save() returns; a clean document is
\* left alone and fires nothing; a failed save throws
SaveDone(t) ==
    /\ tasks[t].pc = "ue_save"
    /\ \/ /\ dirty[tasks[t].target]
          /\ dirty' = [dirty EXCEPT ![tasks[t].target] = FALSE]
          /\ Deliver(onDidSaveTextDocument(tasks[t].target, "echo"),
                     [tasks EXCEPT ![t].pc = "ue_finally"])
       \/ /\ ~dirty[tasks[t].target]
          /\ Continue(t, [tasks[t] EXCEPT !.pc = "ue_finally"])
          /\ UNCHANGED dirty
       \/ /\ Continue(t, [tasks[t] EXCEPT !.pc = "ue_failed"])
          /\ UNCHANGED dirty
    /\ UNCHANGED <<fileMap, fileMapKeys, ignoreSave, persistedEditors,
                   memento, showSavePrompt, text, exists, activeTextEditor,
                   ops, restarts>>
    /\ UNCHANGED pvars

\* line 82 done; lines 83-85: the finally block, then updateEditor returns
\* or rethrows: its promise is settled
UpdateEditorFinally(t) ==
    /\ tasks[t].pc \in {"ue_finally", "ue_failed"}
    /\ ignoreSave' = IgnoreSaveAfterSave(tasks[t].pc = "ue_failed")
    /\ Continue(t, Settled(tasks[t], "ue_return",
                           IF tasks[t].pc = "ue_failed"
                           THEN "SaveError" ELSE "ok"))
    /\ UNCHANGED <<fileMap, fileMapKeys, persistedEditors, memento,
                   showSavePrompt, text, dirty, exists, activeTextEditor, ops,
                   restarts>>
    /\ UNCHANGED pvars

\* line 57 or line 75 done: the caller of updateEditor resumes and returns
\* or rethrows; showDocument ends, updateToCloud settles its own promise
UpdateEditorDone(t) ==
    /\ tasks[t].pc = "ue_return"
    /\ Continue(t, IF tasks[t].kind = "show"
                   THEN Done(tasks[t], tasks[t].outcome)
                   ELSE [tasks[t] EXCEPT !.pc = "uc_return"])
    /\ UNCHANGED <<fileMap, fileMapKeys, ignoreSave, persistedEditors, memento,
                   showSavePrompt, text, dirty, exists, activeTextEditor, ops,
                   restarts>>
    /\ UNCHANGED pvars

\* line 136 or line 66 done: the caller of updateToCloud resumes and
\* returns or rethrows; onDidSaveTextDocument or updateMatchingNode ends
UpdateToCloudDone(t) ==
    /\ tasks[t].pc = "uc_return"
    /\ Continue(t, Done(tasks[t], tasks[t].outcome))
    /\ UNCHANGED <<fileMap, fileMapKeys, ignoreSave, persistedEditors, memento,
                   showSavePrompt, text, dirty, exists, activeTextEditor, ops,
                   restarts>>
    /\ UNCHANGED pvars

\* ----------------------------------- loadPersistedEditor, save, upload

\* line 106 left out: a node that is not found is handled like a node of
\* another kind
loadPersistedEditor_NoThrow(t, node) ==
    LET r == [tasks[t] EXCEPT !.recovered = TRUE, !.editor = Undefined,
                              !.node = node, !.pc = "lp_return"]
    IN  /\ fileMap' = [fileMap EXCEPT ![r.path] =
                          IF node = "known" THEN tasks[t].editor ELSE Undefined]
        /\ fileMapKeys' = KeysWith(r.path)
        /\ Continue(t, r)

\* loadPersistedEditor lines 95-109 with the answer of tree.findNode: no
\* node throws at line 106; otherwise line 104 stores the editor, undefined
\* for a node of another kind, and line 109 returns the key; either way
\* the promise of loadPersistedEditor is settled
loadPersistedEditor(t, node) ==
    LET r == [tasks[t] EXCEPT !.recovered = TRUE, !.editor = Undefined,
                              !.node = node, !.pc = "lp_return"]
    IN  IF node = "none"
        THEN /\ Continue(t, Settled([tasks[t] EXCEPT !.node = node],
                                    "lp_return", "EntityNotFound"))
             /\ UNCHANGED <<fileMap, fileMapKeys>>
        ELSE /\ fileMap' = [fileMap EXCEPT ![r.path] =
                          IF node = "known" THEN tasks[t].editor ELSE Undefined]
             /\ fileMapKeys' = KeysWith(r.path)
             /\ Continue(t, r)

\* line 94 done: tree.findNode found no node ("none"), a node of one of the
\* three editable kinds ("known") or a node of another kind ("other");
\* loadPersistedEditor runs to its end
FindNodeDone(t) ==
    /\ tasks[t].pc = "lp_findNode"
    /\ \E node \in {"none", "known", "other"} : loadPersistedEditor(t, node)
    /\ UNCHANGED <<ignoreSave, persistedEditors, memento, showSavePrompt, text,
                   dirty, exists, activeTextEditor, ops, restarts>>
    /\ UNCHANGED pvars

\* line 119 or line 63 done: the caller of loadPersistedEditor resumes in a
\* later turn: it rethrows, or it goes on with the key (none when
\* loadPersistedEditor found no key: recovered is false); the save handler
\* goes on at line 121 with ignoreSave and fileMap as they are by then,
\* updateMatchingNode at line 65
LoadPersistedEditorDone(t) ==
    /\ tasks[t].pc = "lp_return"
    /\ Continue(t, IF tasks[t].outcome # "none"
                   THEN Done(tasks[t], tasks[t].outcome)
                   ELSE IF tasks[t].kind = "save"
                   THEN IF tasks[t].recovered
                        THEN SaveHandlerBody(tasks[t], fileMap)
                        ELSE Done(tasks[t], "unbound")
                   ELSE [tasks[t] EXCEPT !.pc = "um_open",
                                         !.target = IF tasks[t].recovered
                                                    THEN tasks[t].path
                                                    ELSE NoPath])
    /\ UNCHANGED <<fileMap, fileMapKeys, ignoreSave, persistedEditors, memento,
                   showSavePrompt, text, dirty, exists, activeTextEditor, ops,
                   restarts>>
    /\ UNCHANGED pvars

\* the else branch of line 131 left out: every answer but
\* upload-and-stop-asking uploads
PromptResult_NoCancel(r, result) ==
    CASE result = "uploadDontWarn" -> [r EXCEPT !.pc = "os_configUpdate"]
      [] OTHER -> updateToCloud(r, r.editor)

\* lines 129-136: what the handler r does with the answer to the prompt
PromptResult(r, result) ==
    CASE result = "upload" -> updateToCloud(r, r.editor)
      [] result = "uploadDontWarn" -> [r EXCEPT !.pc = "os_configUpdate"]
      [] OTHER -> Done(r, "Cancelled")

\* line 127 done; lines 129-136
SavePrompt(t) ==
    /\ tasks[t].pc = "os_prompt"
    /\ \E result \in {"upload", "uploadDontWarn", "Cancel", "dismissed"} :
          Continue(t, PromptResult([tasks[t] EXCEPT !.answer = result],
                                   result))
    /\ UNCHANGED <<fileMap, fileMapKeys, ignoreSave, persistedEditors,
                   memento, showSavePrompt, text, dirty, exists,
                   activeTextEditor, ops, restarts>>
    /\ UNCHANGED pvars

\* line 130 done: the setting is off; line 136
ConfigUpdateDone(t) ==
    /\ tasks[t].pc = "os_configUpdate"
    /\ showSavePrompt' = FALSE
    /\ Continue(t, updateToCloud(tasks[t], tasks[t].editor))
    /\ UNCHANGED <<fileMap, fileMapKeys, ignoreSave, persistedEditors,
                   memento, text, dirty, exists, activeTextEditor, ops,
                   restarts>>
    /\ UNCHANGED pvars

\* the text editor updateToCloud hands to updateEditor (line 75)
RewriteTarget(r) == activeTextEditor

\* line 70 done (the entity answers its value after the write, or the call
\* fails and updateToCloud rethrows); lines 71-75 and 79: the answer goes
\* to updateEditor with vscode.window.activeTextEditor, which calls
\* writeToEditor; without an active editor that call throws and
\* updateEditor rethrows
UpdateDone(t) ==
    /\ tasks[t].pc = "uc_update"
    /\ \/ \E updatedDoc \in Data :
            Continue(t,
               IF RewriteTarget(tasks[t]) = NoPath
               THEN Settled([tasks[t] EXCEPT !.answer = "none"],
                            "ue_return", "TypeError")
               ELSE [tasks[t] EXCEPT !.pc = "ue_write", !.data = updatedDoc,
                                     !.answer = "none",
                                     !.target = RewriteTarget(tasks[t])])
       \/ Continue(t, Settled([tasks[t] EXCEPT !.answer = "none"],
                              "uc_return", "TransportError"))
    /\ UNCHANGED <<fileMap, fileMapKeys, ignoreSave, persistedEditors,
                   memento, showSavePrompt, text, dirty, exists,
                   activeTextEditor, ops, restarts>>
    /\ UNCHANGED pvars

\* the command: updateMatchingNode(documentUri, tree) up to its first await
\* (lines 61-65; a path without an entry in fileMap awaits
\* loadPersistedEditor, which has returned undefined when the persisted
\* table has no key for it); target holds filePath until updateToCloud
UpdateMatchingNode(p) ==
    /\ ops < MaxOps
    /\ exists[p]
    /\ FreeSlots # {}
    /\ LET r == NewTask("match", p, Undefined, "cmd")
       IN  tasks' = [tasks EXCEPT ![FreeSlot] =
              IF fileMap[p] # Absent
              THEN [r EXCEPT !.pc = "um_open", !.target = p]
              ELSE IF PersistedKey(p) = NoPath
              THEN [r EXCEPT !.pc = "lp_return"]
              ELSE [r EXCEPT !.pc = "lp_findNode",
                             !.editor = [id |-> persistedEditors[p]]]]
    /\ ops' = ops + 1
    /\ UNCHANGED <<fileMap, fileMapKeys, ignoreSave, persistedEditors,
                   memento, showSavePrompt, text, dirty, exists,
                   activeTextEditor, finished, restarts>>
    /\ UNCHANGED pvars

\* line 65 done; line 66: this.fileMap[filePath] goes to updateToCloud,
\* whose promise updateMatchingNode awaits
MatchOpenDone(t) ==
    /\ tasks[t].pc = "um_open"
    /\ Continue(t, updateToCloud(tasks[t], IF tasks[t].target = NoPath
                                           THEN Undefined
                                           ELSE fileMap[tasks[t].target]))
    /\ UNCHANGED <<fileMap, fileMapKeys, ignoreSave, persistedEditors,
                   memento, showSavePrompt, text, dirty, exists,
                   activeTextEditor, ops, restarts>>
    /\ UNCHANGED pvars

\* ------------------------------------------------------- the environment

\* the user types s into the document at p
UserEdit(p, s) ==
    /\ ops < MaxOps
    /\ exists[p]
    /\ s # text[p]
    /\ text' = [text EXCEPT ![p] = s]
    /\ dirty' = [dirty EXCEPT ![p] = TRUE]
    /\ ops' = ops + 1
    /\ UNCHANGED <<fileMap, fileMapKeys, ignoreSave, persistedEditors,
                   memento, showSavePrompt, exists, activeTextEditor, tasks,
                   finished, restarts>>
    /\ UNCHANGED pvars

\* the user saves the document at p: the editor writes it and fires
\* onDidSaveTextDocument
UserSave(p) ==
    /\ ops < MaxOps
    /\ exists[p]
    /\ dirty' = [dirty EXCEPT ![p] = FALSE]
    /\ Deliver(onDidSaveTextDocument(p, "user"), tasks)
    /\ ops' = ops + 1
    /\ UNCHANGED <<fileMap, fileMapKeys, ignoreSave, persistedEditors,
                   memento, showSavePrompt, text, exists, activeTextEditor,
                   restarts>>
    /\ UNCHANGED pvars

\* the user brings another editor to the front, or closes the last one
SwitchEditor(a) ==
    /\ ops < MaxOps
    /\ a # activeTextEditor
    /\ IF a = NoPath THEN TRUE ELSE exists[a]
    /\ activeTextEditor' = a
    /\ ops' = ops + 1
    /\ UNCHANGED <<fileMap, fileMapKeys, ignoreSave, persistedEditors,
                   memento, showSavePrompt, text, dirty, exists, tasks,
                   finished, restarts>>
    /\ UNCHANGED pvars

\* the extension host restarts: a new CosmosEditorManager (lines 29-30), no
\* call in flight; globalState, the configuration and the files stay
Restart ==
    /\ restarts < MaxRestarts
    /\ FreeSlots = Tasks
    /\ fileMap' = EmptyFileMap
    /\ fileMapKeys' = <<>>
    /\ ignoreSave' = FALSE
    /\ finished' = IdleTask
    /\ restarts' = restarts + 1
    /\ UNCHANGED <<persistedEditors, memento, showSavePrompt, text, dirty,
                   exists, activeTextEditor, tasks, ops>>
    /\ UNCHANGED pvars

Next ==
    \/ \E e \in Editors, p \in Paths : ShowDocument(e, p)
    \/ \E p \in Paths : UpdateMatchingNode(p)
    \/ \E p \in Paths, s \in UserTexts : UserEdit(p, s)
    \/ \E p \in Paths : UserSave(p)
    \/ \E a \in Paths \cup {NoPath} : SwitchEditor(a)
    \/ Restart
    \/ \E t \in Tasks :
          \/ EnsureFileDone(t)
          \/ OpenDone(t)
          \/ OverwritePrompt(t)
          \/ ShowTextDocumentDone(t)
          \/ GetDataDone(t)
          \/ WriteApplied(t)
          \/ WriteDone(t)
          \/ SaveDone(t)
          \/ UpdateEditorFinally(t)
          \/ UpdateEditorDone(t)
          \/ UpdateToCloudDone(t)
          \/ FindNodeDone(t)
          \/ LoadPersistedEditorDone(t)
          \/ SavePrompt(t)
          \/ ConfigUpdateDone(t)
          \/ UpdateDone(t)
          \/ MatchOpenDone(t)

Spec == Init /\ [][Next]_vars

\* ------------------------------------------ MongoCollectionTreeItem paging

\* hasMoreChildren() (lines 64-66)
HasMoreChildren == hasMoreChildren

FreeCalls == {c \in Calls : calls[c].pc = "idle"}
FreeCall  == CHOOSE c \in FreeCalls : \A d \in FreeCalls : c <= d

\* the batch size is kept when the cursor is made anew
ResetBatchSize_Kept(b) == b

\* line 71: the batch size after the cursor is made, b being the old one
ResetBatchSize(b) == DefaultBatchSize

\* the batch size is left as it is after the loop
NextBatchSize_Same(b) == b

\* line 85: the batch size after the loop, b being the old one
NextBatchSize(b) == b * 2

\* line 76: the loop condition
LoopGoesOn(count, b) == count < b

\* the call of slot c ends as record r (it returned its documents, or it
\* threw); the ghost variables take note
EndCall(c, r) ==
    /\ calls' = [calls EXCEPT ![c] = IdleCall]
    /\ lastCall' = r
    /\ IF r.outcome = "ok"
       THEN /\ returned' = returned \o r.documents
            /\ fetches' = fetches + 1
            /\ UNCHANGED undisturbed
       ELSE /\ undisturbed' = FALSE
            /\ UNCHANGED <<returned, fetches>>

\* lines 76-88 for the call r of slot c, whose loop condition is evaluated
\* with the batch size b: another round of the loop calls hasNext() on
\* this._cursor; otherwise the batch size is doubled and the documents are
\* returned
LoopOrReturn(c, r, b) ==
    IF LoopGoesOn(r.count, b)
    THEN /\ calls' = [calls EXCEPT ![c] = [r EXCEPT !.pc = "hasNext",
                                                    !.on = cursor']]
         /\ batchSize' = b
         /\ UNCHANGED <<lastCall, returned, fetches, undisturbed>>
    ELSE /\ batchSize' = NextBatchSize(b)
         /\ EndCall(c, [r EXCEPT !.pc = "done", !.on = NoCursor,
                                 !.outcome = "ok"])

\* loadMoreChildren(_node, clearCache) up to its first await (lines 69-77)
LoadMoreChildren(clearCache) ==
    /\ started < MaxFetches
    /\ FreeCalls # {}
    /\ started' = started + 1
    /\ LET makes == clearCache \/ cursor = NoCursor
           r     == [IdleCall EXCEPT !.clearCache = clearCache,
                                     !.alone = (FreeCalls = Calls)]
           others == [c \in Calls |->
                        IF calls[c].pc = "idle" THEN calls[c]
                        ELSE [calls[c] EXCEPT !.alone = FALSE]]
       IN  /\ makes => cursor < MaxCursors
           /\ cursor' = IF makes THEN cursor + 1 ELSE cursor
           /\ lastAnswer' = IF makes THEN "none" ELSE lastAnswer
           /\ batchSize' = IF makes THEN ResetBatchSize(batchSize)
                            ELSE batchSize
           \* the batch size is never below 1: the loop is entered
           /\ LoopGoesOn(0, batchSize')
           /\ calls' = [others EXCEPT ![FreeCall] =
                           [r EXCEPT !.pc = "hasNext", !.on = cursor']]
           /\ returned' = IF makes THEN <<>> ELSE returned
           /\ fetches' = IF makes THEN 0 ELSE fetches
           /\ undisturbed' = IF makes THEN FreeCalls = Calls
                             ELSE undisturbed /\ FreeCalls = Calls
           /\ stable' = IF makes /\ FreeCalls = Calls THEN TRUE ELSE stable
           /\ UNCHANGED lastCall
    /\ UNCHANGED <<query, collection, unmatched, inserted, changes,
                   DefaultBatchSize, cursorPos, hasMoreChildren>>
    /\ UNCHANGED evars

\* line 77 done: hasNext() of the cursor it was called on answers whether
\* that cursor has documents left, or the call fails; lines 78-88
HasNextDone(c) ==
    /\ calls[c].pc = "hasNext"
    /\ \/ LET h == cursorPos[calls[c].on] < Len(Find(CursorFilter(query)))
          IN  /\ hasMoreChildren' = h
              /\ lastAnswer' = IF calls[c].on # cursor THEN lastAnswer
                               ELSE IF h THEN "true" ELSE "false"
              /\ IF h
                 THEN /\ calls' = [calls EXCEPT ![c].pc = "next",
                                                ![c].on = cursor]
                      /\ UNCHANGED <<batchSize, lastCall, returned, fetches,
                                     undisturbed>>
                 ELSE /\ batchSize' = NextBatchSize(batchSize)
                      /\ EndCall(c, [calls[c] EXCEPT !.pc = "done",
                                                     !.on = NoCursor,
                                                     !.outcome = "ok"])
       \/ /\ EndCall(c, [calls[c] EXCEPT !.pc = "done", !.on = NoCursor,
                                         !.outcome = "TransportError"])
          /\ UNCHANGED <<hasMoreChildren, lastAnswer, batchSize>>
    /\ UNCHANGED <<query, collection, unmatched, inserted, changes, stable,
                   DefaultBatchSize, cursor, cursorPos, started>>
    /\ UNCHANGED evars

\* the document next() yields on a cursor that has yielded pos documents:
\* the next one of those its filter matches in the collection as it is by
\* then, or null (0) from an exhausted cursor
NextDocument(pos) ==
    LET found == Find(CursorFilter(query))
    IN  IF pos < Len(found) THEN found[pos + 1] ELSE 0

\* line 79 done: next() of the cursor it was called on yields its next
\* document, or the call fails (also: an exhausted cursor may reject
\* instead of yielding null); lines 79-88
NextDone(c) ==
    /\ calls[c].pc = "next"
    /\ \/ LET pos == cursorPos[calls[c].on]
              r   == [calls[c] EXCEPT
                         !.documents = Append(@, NextDocument(pos)),
                         !.count = @ + 1]
          IN  /\ cursorPos' = [cursorPos EXCEPT ![calls[c].on] =
                                  IF NextDocument(pos) # 0 THEN pos + 1
                                  ELSE pos]
              /\ UNCHANGED cursor
              /\ LoopOrReturn(c, r, batchSize)
       \/ /\ EndCall(c, [calls[c] EXCEPT !.pc = "done", !.on = NoCursor,
                                         !.outcome = "TransportError"])
          /\ UNCHANGED <<cursor, cursorPos, batchSize>>
    /\ UNCHANGED <<query, collection, unmatched, inserted, changes, stable,
                   DefaultBatchSize, hasMoreChildren, lastAnswer, started>>
    /\ UNCHANGED evars

\* ------------------------------------ the methods that write to the collection

\* the lists of at most k documents {a: n}
DocLists(k) == UNION {[1..j -> Data] : j \in 0..k}

\* collection.insertOne / insert / insertMany with the list docs: they are
\* new documents and come last in the cursor's order; a cursor of the item
\* yields those the query matches
Inserted(docs) ==
    LET new == {i \in 1..Len(docs) : MatchesQuery(query, docs[i])}
    IN  [collection |-> collection \o
                        SelectSeq([i \in 1..Len(docs) |-> inserted + i],
                                  LAMBDA d : (d - inserted) \in new),
         unmatched |-> unmatched \cup
                       {inserted + i : i \in (1..Len(docs)) \ new},
         inserted |-> inserted + Len(docs)]

\* collection.deleteMany / remove with a filter that the documents of the
\* set S match: the collection without them
Removed(S) ==
    [collection |-> SelectSeq(collection, LAMBDA d : d \notin S),
     unmatched |-> unmatched \ S,
     inserted |-> inserted]

\* collection.deleteOne with a filter that the documents of S match: the
\* first of them in the collection's order
FirstOf(S) ==
    LET at == S \cap StoreIds
    IN  IF at = {} THEN {}
        ELSE {CHOOSE d \in at : \A e \in at : d <= e}

\* collection.drop(): no document is left
Dropped == [collection |-> <<>>, unmatched |-> {}, inserted |-> inserted]

\* the collection as it is
Kept ==
    [collection |-> collection, unmatched |-> unmatched,
     inserted |-> inserted]

\* line 37: _.omit(document, '_id')
Omit_id(document) == [a |-> document.a]

\* the arguments of update: lists of at most MaxUpdate documents
\* {_id, a}, the _id being that of a document of the collection or one
\* that no document has
UpdateLists ==
    UNION {[1..j -> [_id : StoreIds \cup {inserted + 1}, a : 1..NumData]] :
              j \in 0..MaxUpdate}

\* collection.bulkWrite of lines 33-43 for the list documents: one by one,
\* the document with the _id of documents[j] gets the other fields of
\* documents[j] (upsert is false: an _id that no document has changes
\* nothing); a cursor of the item yields a document afterwards when the
\* query matches the fields it got last
Updated(documents) ==
    LET at(i)   == {j \in 1..Len(documents) : documents[j]._id = i}
        last(i) == CHOOSE j \in at(i) : \A k \in at(i) : k <= j
        yields(i) == IF at(i) = {} THEN i \notin unmatched
                     ELSE MatchesQuery(query, Omit_id(documents[last(i)]))
        M == {i \in StoreIds : yields(i)}
    IN  [collection |-> InOrder(M),
         unmatched |-> StoreIds \ M,
         inserted |-> inserted]

\* the remote collection becomes s (at most MaxDocs documents); the fields
\* of the item and the calls in flight are not touched
ChangeCollection(s) ==
    /\ Len(s.collection) + Cardinality(s.unmatched) <= MaxDocs
    /\ changes' = changes + 1
    /\ collection' = s.collection
    /\ unmatched' = s.unmatched
    /\ inserted' = s.inserted
    /\ stable' = (stable /\ s.collection = collection)
    /\ UNCHANGED <<query, DefaultBatchSize, cursor, cursorPos,
                   hasMoreChildren, batchSize, calls, lastCall, returned,
                   fetches, undisturbed, lastAnswer, started>>
    /\ UNCHANGED evars

\* update(documents) (lines 32-47)
Update(documents) ==
    /\ changes < MaxChanges
    /\ ChangeCollection(Updated(documents))

\* createChild (lines 90-105): the input box answers docId; undefined
\* throws UserCancelledError, the empty answer inserts the document {},
\* any other answer the document {id: docId}
CreateChild(docId) ==
    /\ changes < MaxChanges
    /\ ChangeCollection(IF docId = "undefined" THEN Kept
                        ELSE IF docId = "" THEN Inserted(<< <<>> >>)
                        ELSE Inserted(<<[id |-> docId]>>))

\* deleteTreeItem (lines 142-150) and drop (lines 152-155): Yes drops the
\* collection, any other answer throws UserCancelledError
DeleteTreeItem(result) ==
    /\ changes < MaxChanges
    /\ ChangeCollection(IF result = "Yes" THEN Dropped ELSE Kept)

CommandNames == {"drop", "insertMany", "insert", "insertOne", "deleteOne",
                 "deleteMany", "remove", "count", "findOne", "other"}

\* executeCommand(name, args) (lines 107-140, 152-207), the arguments given
\* by what they mean to the store: docs the documents in args (for an
\* insert; none when args is missing or is no document, and nothing is
\* inserted), S the documents that the filter in args matches (for a
\* delete; all of them when args is missing)
ExecuteCommand(name, docs, S) ==
    /\ changes < MaxChanges
    /\ ChangeCollection(
          CASE name = "drop" -> Dropped
            [] name \in {"insertMany", "insert"} -> Inserted(docs)
            [] name = "insertOne" ->
                  Inserted(IF docs = <<>> THEN docs ELSE <<docs[1]>>)
            [] name = "deleteOne" -> Removed(FirstOf(S))
            [] name \in {"deleteMany", "remove"} -> Removed(S)
            [] OTHER -> Kept)

NextPaging ==
    \/ \E clearCache \in BOOLEAN : LoadMoreChildren(clearCache)
    \/ \E c \in Calls : HasNextDone(c)
    \/ \E c \in Calls : NextDone(c)
    \/ \E documents \in UpdateLists : Update(documents)
    \/ \E docId \in {"undefined", "", "x"} : CreateChild(docId)
    \/ \E result \in {"Yes", "Cancel", "dismissed"} : DeleteTreeItem(result)
    \/ \E name \in CommandNames :
          \E docs \in IF name \in {"insertMany", "insert"}
                       THEN DocLists(MaxInsert)
                       ELSE IF name = "insertOne" THEN DocLists(1)
                       ELSE {<<>>},
             S \in IF name \in {"deleteOne", "deleteMany", "remove"}
                    THEN SUBSET StoreIds
                    ELSE {{}} :
                ExecuteCommand(name, docs, S)

SpecPaging == InitPaging /\ [][NextPaging]_vars

\* ------------------------------------------------------------- the claims

\* the records of the calls in flight and of the call that finished last
Records == {tasks[t] : t \in Tasks} \cup {finished}

\* the call of slot t returns or throws in this step
Finishes(t) == tasks[t].pc # "idle" /\ tasks'[t].pc = "idle"

\* a save handler is entered and ends within this step (a user save, or the
\* save of updateEditor)
SyncHandled ==
    \/ /\ ops' = ops + 1
       /\ tasks' = tasks
       /\ text' = text
       /\ activeTextEditor' = activeTextEditor
    \/ \E t \in Tasks :
          /\ tasks[t].pc = "ue_save"
          /\ tasks'[t].pc = "ue_finally"
          /\ dirty' # dirty
          /\ \A u \in Tasks \ {t} : tasks'[u] = tasks[u]

\* some updateEditor call is between setting ignoreSave and its finally
Rewriting == \E t \in Tasks : tasks[t].pc \in {"ue_save", "ue_finally", "ue_failed"}

\* C1: whenever an updateEditor call returns or throws after its save
\* succeeded or failed, ignoreSave is false right after; and ignoreSave is
\* never set unless some updateEditor call is between setting it and its
\* finally block, so no updateEditor call that is over leaves it set.
C1_SuppressFlagSafety ==
    [][ /\ \A t \in Tasks :
             (tasks[t].pc \in {"ue_finally", "ue_failed"}
                 /\ tasks'[t] # tasks[t])
                => /\ tasks'[t].pc = "ue_return"
                   /\ ignoreSave' = FALSE
        /\ ignoreSave' => Rewriting' ]_vars

\* C1 witness: an updateEditor call whose save failed has thrown and
\* ignoreSave is false
C1_Witness == finished.outcome = "SaveError" /\ ~ignoreSave

\* C2: a save handler entered while ignoreSave is true makes no
\* editor.update call and does not throw.
C2_SuppressedSaveIsNoOp ==
    \A r \in Records :
        (r.kind = "save" /\ r.flag) => (~r.updated /\ r.outcome \notin Errors)

\* C3: the save event fired by updateEditor's own save never leads to an
\* editor.update call.
C3_EchoSaveNeverUploads ==
    \A r \in Records : r.origin = "echo" => ~r.updated

\* C4: a user save of a buffer bound in memory, made while ignoreSave is
\* set for the rewrite of another buffer only, is not suppressed.
C4_OtherBufferNotSuppressed ==
    [][ ( /\ SyncHandled
          /\ finished'.kind = "save"
          /\ finished'.origin = "user"
          /\ finished'.flag
          /\ ~finished'.ownRewrite
          /\ fileMap[finished'.path] \in Editors )
        => finished'.outcome # "suppressed" ]_vars

\* the buffer an upload or a bind writes its value into is the buffer of
\* the call, and the text written is JSON.stringify(value, null, 2)
\* C5: when showDocument(E, path) rewrites the editor, the buffer at path
\* holds the pretty-printed E.getData(); when the upload triggered by a save
\* of that buffer rewrites the editor, the same buffer holds the
\* pretty-printed value returned by E.update(D).
C5_RoundTrip ==
    [][ \A t \in Tasks :
          (tasks[t].pc = "ue_write" /\ tasks'[t].pc = "ue_written"
              /\ tasks[t].kind \in {"show", "save"})
          => text'[tasks[t].path] = JSONstringify(tasks[t].data) ]_vars

\* the upload of the save handler in slot t fails with MalformedInput in
\* this step: line 70 throws
MalformedNow(t) ==
    /\ tasks'[t].kind = "save"
    /\ tasks'[t].pc = "uc_return"
    /\ tasks'[t].outcome = "MalformedInput"
    /\ tasks[t].pc # "uc_return"

\* C6: a save-triggered upload that finds text that is no JSON throws
\* MalformedInput without any editor.update call, and leaves the text of
\* every buffer, the persisted table and every binding it did not itself
\* recover as they were; an update call in flight always carries the parsed
\* value.
C6_MalformedInputAborts ==
    [][ /\ \A t \in Tasks :
             MalformedNow(t) =>
                /\ ~tasks'[t].updated
                /\ text' = text
                /\ persistedEditors' = persistedEditors
                /\ \A q \in Paths :
                      (fileMap'[q] # fileMap[q])
                         => (tasks'[t].recovered /\ q = tasks'[t].path)
        /\ \A t \in Tasks :
             ( tasks[t].kind = "save" /\ tasks[t].pc = "uc_return"
                  /\ tasks[t].outcome = "MalformedInput"
                  /\ tasks'[t] # tasks[t] )
             => /\ Finishes(t)
                /\ finished'.outcome = "MalformedInput"
                /\ ~finished'.updated
                /\ UNCHANGED <<text, persistedEditors, fileMap>>
        /\ \A t \in Tasks :
             tasks'[t].pc = "uc_update" => tasks'[t].data \in Data ]_vars

\* C6 witness: a save handler has thrown MalformedInput on a buffer whose
\* text is no JSON, without an update call
C6_Witness ==
    /\ finished.kind = "save"
    /\ finished.outcome = "MalformedInput"
    /\ ~finished.updated
    /\ JSONparse(text[finished.path]) = SyntaxError

\* C7: after a save-triggered upload fails with MalformedInput the buffer
\* is dirty.
C7_BufferLeftDirty ==
    [][ \A t \in Tasks :
          MalformedNow(t) => dirty'[tasks'[t].path] ]_vars

\* C8: answering the upload prompt with Cancel (or dismissing it) throws
\* Cancelled without an update call and changes no text, table or flag;
\* upload-and-stop-asking turns the setting off and goes on to the upload;
\* with the setting off no save handler prompts, and the code never turns
\* it on again.
C8_PromptAnswers ==
    [][ /\ \A t \in Tasks :
             (tasks[t].pc = "os_prompt" /\ tasks'[t] # tasks[t])
             => LET r == IF Finishes(t) THEN finished' ELSE tasks'[t]
                IN  /\ UNCHANGED <<text, ignoreSave, fileMap,
                                   persistedEditors, showSavePrompt>>
                    /\ r.answer \in {"Cancel", "dismissed"}
                          => /\ Finishes(t)
                             /\ r.outcome = "Cancelled"
                             /\ ~r.updated
                    /\ r.answer = "uploadDontWarn"
                          => r.pc = "os_configUpdate"
                    /\ r.answer = "upload"
                          => \/ r.pc = "uc_update" /\ r.updated
                             \/ /\ r.pc = "uc_return"
                                /\ r.outcome = "MalformedInput"
                                /\ ~r.updated
        /\ \A t \in Tasks :
             (tasks[t].pc = "os_configUpdate" /\ tasks'[t] # tasks[t])
             => /\ showSavePrompt' = FALSE
                /\ \/ tasks'[t].pc = "uc_update" /\ tasks'[t].updated
                   \/ /\ tasks'[t].pc = "uc_return"
                      /\ tasks'[t].outcome = "MalformedInput"
                      /\ ~tasks'[t].updated
        /\ showSavePrompt = FALSE =>
             /\ showSavePrompt' = FALSE
             /\ \A t \in Tasks :
                   tasks'[t].pc = "os_prompt" => tasks[t].pc = "os_prompt" ]_vars

\* C8 witness: the setting was turned off by one answer and another prompt,
\* opened before that, was cancelled without an update call
C8_Witness ==
    /\ showSavePrompt = FALSE
    /\ finished.kind = "save"
    /\ finished.answer \in {"Cancel", "dismissed"}
    /\ finished.outcome = "Cancelled"
    /\ ~finished.updated

\* C9: declining the overwrite prompt of showDocument throws Cancelled
\* with both tables and every text as they were and getData never called;
\* the steps of the call before the prompt change nothing but the
\* existence of the file, which exists when the call throws.
C9_DeclinedBindChangesNothing ==
    [][ \A t \in Tasks :
          /\ ( tasks[t].pc = "sd_prompt" /\ Finishes(t)
                  /\ finished'.outcome = "Cancelled" )
             => /\ UNCHANGED <<fileMap, persistedEditors, text>>
                /\ ~finished'.gotData
                /\ exists'[finished'.path]
          /\ ( tasks[t].pc \in {"sd_ensureFile", "sd_open"}
                  /\ tasks'[t].pc \in {"sd_open", "sd_prompt"}
                  /\ tasks'[t] # tasks[t] )
             => UNCHANGED <<fileMap, persistedEditors, text>> ]_vars

\* C9 witness: a showDocument call was cancelled at the overwrite prompt:
\* the buffer is dirty, the file exists
C9_Witness ==
    /\ finished.kind = "show"
    /\ finished.outcome = "Cancelled"
    /\ dirty[finished.path]
    /\ exists[finished.path]

After(t) == IF Finishes(t) THEN finished' ELSE tasks'[t]

\* C11: when tree.findNode finds no node for the persisted id, the call
\* that asked throws EntityNotFound at once, without asking again, without
\* an editor.update call, and without writing fileMap or the persisted
\* table.
C11_UnresolvedRecoveryFails ==
    [][ \A t \in Tasks :
          /\ (tasks[t].pc = "lp_findNode" /\ tasks'[t] # tasks[t]
                 /\ After(t).node = "none")
             => /\ tasks'[t].pc = "lp_return"
                /\ tasks'[t].outcome = "EntityNotFound"
                /\ ~tasks'[t].updated
                /\ ~tasks'[t].recovered
                /\ fileMap' = fileMap
                /\ persistedEditors' = persistedEditors
                /\ \A u \in Tasks :
                      tasks'[u].pc = "lp_findNode" => tasks'[u] = tasks[u]
          /\ (tasks[t].pc = "lp_return" /\ tasks'[t] # tasks[t]
                 /\ tasks[t].node = "none")
             => /\ Finishes(t)
                /\ finished'.outcome = "EntityNotFound"
                /\ ~finished'.updated
                /\ ~finished'.recovered
                /\ fileMap' = fileMap
                /\ persistedEditors' = persistedEditors
                /\ \A u \in Tasks :
                      tasks'[u].pc = "lp_findNode" => tasks'[u] = tasks[u] ]_vars

\* C11 witness: a call has thrown EntityNotFound for a path that has a
\* persisted id and no entry in fileMap
C11_Witness ==
    /\ finished.node = "none"
    /\ finished.outcome = "EntityNotFound"
    /\ fileMap[finished.path] = Absent
    /\ PersistedKey(finished.path) # NoPath

\* C12: when recovery for a path fails because tree.findNode finds no node
\* for the persisted id, the path is dropped from the persisted table, so
\* that a later save of it does not ask tree.findNode again.
C12_StaleBindingDropped ==
    [][ \A t \in Tasks :
          (tasks[t].pc = "lp_findNode" /\ tasks'[t] # tasks[t]
              /\ After(t).node = "none")
          => IF persistedEditors' = Undefined
             THEN TRUE
             ELSE persistedEditors'[tasks[t].path] = NoId ]_vars

\* the call of slot t executes lines 51-54 of showDocument in this step
Binds(t) ==
    /\ tasks[t].pc \in {"sd_open", "sd_prompt"}
    /\ tasks'[t] # tasks[t]
    /\ After(t).pc # "sd_prompt"
    /\ After(t).outcome # "Cancelled"

\* C13: every entry of fileMap is one editor; and when showDocument(E, p)
\* records its binding, also over an earlier binding of p, then p is bound
\* to E in fileMap and to E.id in the persisted table, and the entries of
\* every other path are as before in both tables.
C13_RebindingOverwrites ==
    [][ /\ \A q \in Paths : fileMap'[q] \in Editors \cup {Absent}
        /\ \A t \in Tasks :
             Binds(t) =>
                /\ fileMap'[tasks[t].path] = tasks[t].editor
                /\ persistedEditors' # Undefined
                /\ IF persistedEditors' = Undefined
                   THEN FALSE
                   ELSE /\ persistedEditors'[tasks[t].path] = tasks[t].editor.id
                        /\ \A q \in Paths \ {tasks[t].path} :
                              persistedEditors'[q] = PersistedOrEmpty[q]
                /\ \A q \in Paths \ {tasks[t].path} :
                      fileMap'[q] = fileMap[q] ]_vars

\* C17: a save handler for a path without an entry in fileMap whose
\* recovery binds nothing (no persisted id for the path, or a node of an
\* unrecognized kind) returns without error, without a prompt, without an
\* editor.update call, and adds no entry to fileMap.
C17_UnresolvedSaveIsNoOp ==
    [][ /\ \A t \in Tasks :
             ( tasks[t].kind = "save" /\ tasks[t].pc = "lp_return"
                  /\ tasks'[t] # tasks[t] /\ tasks[t].node = "unasked" )
             => /\ Finishes(t)
                /\ finished'.outcome = "unbound"
                /\ ~finished'.updated
                /\ fileMap' = fileMap
        /\ \A t \in Tasks :
             ( tasks[t].kind = "save" /\ tasks[t].pc = "lp_findNode"
                  /\ tasks'[t] # tasks[t] /\ After(t).node = "other" )
             => fileMap' = fileMap
        /\ \A t \in Tasks :
             ( tasks[t].kind = "save" /\ tasks[t].pc = "lp_return"
                  /\ tasks'[t] # tasks[t] /\ tasks[t].node = "other" )
             => /\ Finishes(t)
                /\ finished'.outcome \notin Errors
                /\ ~finished'.updated
                /\ fileMap' = fileMap ]_vars

\* the pcs of a call that is past the binding lookup: prompting, uploading
\* or rewriting the editor
UploadPcs == {"os_prompt", "os_configUpdate", "um_open", "uc_update",
              "ue_write", "ue_written", "ue_save", "ue_finally",
              "ue_failed", "ue_return", "uc_return"}

\* C18: within a session (no restart) a path that fileMap binds to an
\* editor stays bound to an editor in every later state, and no step of an
\* upload, whether it succeeds, is cancelled or fails, changes fileMap.
C18_BoundStaysBound ==
    [][ /\ restarts' = restarts
           => \A q \in Paths :
                 fileMap[q] \in Editors => fileMap'[q] \in Editors
        /\ \A t \in Tasks :
             (tasks[t].pc \in UploadPcs /\ tasks'[t] # tasks[t])
             => fileMap' = fileMap ]_vars

\* C19: when editor.update answers an upload made for the buffer at path P
\* (from onDidSaveTextDocument or updateMatchingNode), the editor that is
\* rewritten is the one of P whatever the active editor is, and the rewrite
\* puts the pretty-printed answer into P and changes no other buffer.
C19_UploadRewritesItsBuffer ==
    [][ \A t \in Tasks :
          tasks[t].kind \in {"save", "match"} =>
             /\ ( tasks[t].pc = "uc_update" /\ tasks'[t] # tasks[t]
                     /\ After(t).outcome # "TransportError" )
                => /\ After(t).pc = "ue_write"
                   /\ After(t).target = tasks[t].path
             /\ ( tasks[t].pc = "ue_write" /\ tasks'[t].pc = "ue_written" )
                => /\ text'[tasks[t].path] = JSONstringify(tasks[t].data)
                   /\ \A q \in Paths \ {tasks[t].path} : text'[q] = text[q] ]_vars

RECURSIVE Pow2(_)
Pow2(k) == IF k = 0 THEN 1 ELSE 2 * Pow2(k - 1)

Min(a, b) == IF a <= b THEN a ELSE b

\* the documents from+1 .. from+m of the collection in the cursor's order
Batch(from, m) == [i \in 1..m |-> collection[from + i]]

\* the sequence s holds the first Len(s) documents of the collection
IsPrefix(s) ==
    /\ Len(s) <= Len(collection)
    /\ \A i \in 1..Len(s) : s[i] = collection[i]

\* a loadMoreChildren call returns its documents in this step
Returns == fetches' = fetches + 1

\* C14: while the collection is the one the cursor was made for and the
\* calls since then neither overlapped nor threw, the k-th of them returns
\* the next min(B * 2^(k-1), remaining) documents in the cursor's order,
\* directly after those returned before, and leaves the batch size at
\* B * 2^k; when the cursor is seen to be exhausted the documents returned
\* are all N.
C14_BatchesDoubleAndCover ==
    [][ (Returns /\ undisturbed /\ stable) =>
          LET m == Min(DefaultBatchSize * Pow2(fetches),
                       Len(collection) - Len(returned))
          IN  /\ lastCall'.documents = Batch(Len(returned), m)
              /\ returned' = Batch(0, Len(returned) + m)
              /\ batchSize' = DefaultBatchSize * Pow2(fetches + 1)
              /\ ~hasMoreChildren' => returned' = collection ]_vars

\* C14 witness: three calls in a row have returned the 4 documents of a
\* collection in batches of 1, 2 and 1
C14_Witness ==
    /\ undisturbed
    /\ stable
    /\ DefaultBatchSize = 1
    /\ collection = <<1, 2, 3, 4>>
    /\ fetches = 3
    /\ returned = <<1, 2, 3, 4>>
    /\ lastCall.documents = <<4>>
    /\ batchSize = 8

\* C15: hasMoreChildren() is true before any call; and after each call of
\* a row of calls that neither overlapped nor threw, on a collection that
\* did not change, it is false exactly when the documents returned so far
\* include the last one, also when the batch ends on the last document.
C15_HasMoreUntilLast ==
    [][ /\ started' = 0 => HasMoreChildren'
        /\ (Returns /\ undisturbed /\ stable)
              => (HasMoreChildren' <=> Len(returned') < Len(collection)) ]_vars

\* C16: whatever the calls before it did, a loadMoreChildren(node, true)
\* call that runs with no other call in flight, on a collection that does
\* not change meanwhile, and returns has made a new cursor with the stored
\* query, returns the first min(B, N) of the N documents the query matches
\* and none that it does not match, leaves the batch size at 2B, and leaves
\* _hasMoreChildren as the new cursor's hasNext() answered last: true when
\* the query matches more than B documents, false when it matches fewer.
C16_ClearCacheRestarts ==
    [][ (Returns /\ lastCall'.clearCache /\ lastCall'.alone /\ stable) =>
          /\ lastCall'.documents =
                Batch(0, Min(DefaultBatchSize, Len(collection)))
          /\ \A i \in 1..Len(lastCall'.documents) :
                lastCall'.documents[i] \notin unmatched
          /\ returned' = lastCall'.documents
          /\ fetches' = 1
          /\ batchSize' = 2 * DefaultBatchSize
          /\ lastAnswer' = IF HasMoreChildren' THEN "true" ELSE "false"
          /\ Len(collection) > DefaultBatchSize => HasMoreChildren'
          /\ Len(collection) < DefaultBatchSize => ~HasMoreChildren' ]_vars

\* C16 witness: on an item with a query, in a collection that also holds a
\* document the query does not match, after the first cursor was used up a
\* call with clearCache made a second cursor and returned the first B
\* documents the query matches again
C16_Witness ==
    /\ query # Undefined
    /\ unmatched # {}
    /\ cursor = 2
    /\ stable
    /\ Len(collection) > DefaultBatchSize
    /\ cursorPos[1] = Len(collection)
    /\ fetches = 1
    /\ lastCall.clearCache
    /\ lastCall.alone
    /\ lastCall.outcome = "ok"
    /\ lastCall.documents = Batch(0, DefaultBatchSize)
    /\ returned = lastCall.documents
    /\ batchSize = 2 * DefaultBatchSize

\* C20: under every interleaving of loadMoreChildren calls on a collection
\* that does not change, the documents
\* returned by the calls completed since the cursor was made are, in the
\* order returned, the first documents of the cursor's order without gap
\* or repeat; and next() is never called on a cursor whose latest
\* hasNext() answer was false.
C20_NoDocumentLostOrRepeated ==
    [][ stable' =>
          /\ IsPrefix(returned')
          /\ \A c \in Calls :
                (calls'[c].pc = "next" /\ calls[c].pc # "next")
                => lastAnswer' # "false" ]_vars
====
